---- MODULE Spec2Model ----
(***************************************************************************)
(* Model of the AI training service: the session orchestrator              *)
(* (app/services/session_manager.py) with its API layer                    *)
(* (app/api/sessions.py), the completion detector, the prompt builder,     *)
(* the conversation-model client and the Progress (.NET) client.           *)
(*                                                                         *)
(* Texts are sequences of chunks.  The completion marker                   *)
(* "{TOPIC_COMPLETED}" is the two adjacent chunks "{TOPIC_" "COMPLETED}";  *)
(* no other chunk holds "{" or "}", so the marker occurs in the            *)
(* concatenated string exactly where the two chunks are adjacent.          *)
(***************************************************************************)
EXTENDS Integers, Sequences, FiniteSets, TLC

VARIABLES
    chat_sessions,     \* committed table chat_sessions; the row id is the index
    chat_messages,     \* committed table chat_messages: chat_messages[s] is
                       \* the rows with session_id = s, in insertion (id) order
    session_contexts,  \* committed table session_contexts
    gemini_calls,      \* how many times the conversation model was called
    notifications,     \* notifications[s]: the POSTs made to
                       \* /api/UserProgress/complete-topic for session s
    response,          \* the last request served and what its caller got
    text, extracted,   \* SpecText: a model reply and what the detector made of it
    retry,             \* SpecRetry: one call of a function wrapped by
                       \* retry_with_backoff
    args, returned,    \* the arguments of one call of a function of the
                       \* services, and what the call gave
    in_flight          \* SpecConcurrent: in_flight[c] is how far the
                       \* send_message request of caller c has come, with
                       \* the rows of its open transaction

vars == <<chat_sessions, chat_messages, session_contexts, gemini_calls,
          notifications, response, text, extracted, retry, args, returned,
          in_flight>>

dbvars == <<chat_sessions, chat_messages, session_contexts>>

-----------------------------------------------------------------------------
(* Bounds of the model *)

MaxSessions == 2   \* sessions ever committed
MaxCalls == 2      \* conversation-model calls ever made
MaxLen == 5        \* SpecText: length of the texts the detector is applied to
MaxAttempts == 3   \* SpecRetry: the largest max_attempts of a retry policy
MaxHistory == 3    \* the longest list of messages a function is called with
MaxTime == 6       \* SpecConcurrent: the latest timestamp of a message
MaxScore == 4      \* the largest count of answers or questions

-----------------------------------------------------------------------------
(* Texts *)

NL == "\n"
SP == " "
Whitespace == {NL, SP}

\* settings.completion_marker
completion_marker == <<"{TOPIC_", "COMPLETED}">>

\* settings.max_conversation_history
max_conversation_history == 50

Alphabet == {"{TOPIC_", "COMPLETED}", NL, SP, "a"}

\* Python: sub in s
Contains(s, sub) ==
    \E i \in 1..(Len(s) - Len(sub) + 1) : SubSeq(s, i, i + Len(sub) - 1) = sub

\* Python: s[i:] for a 1-based first index i
From(s, i) == SubSeq(s, i, Len(s))

-----------------------------------------------------------------------------
(* CompletionDetector (app/services/completion_detector.py) *)

\* is_topic_completed that takes the marker only as the whole response
is_topic_completed_whole(ai_response) ==
    IF ai_response = <<>> THEN FALSE
    ELSE ai_response = completion_marker

\* is_topic_completed that looks for the marker at the start of the response
is_topic_completed_prefix(ai_response) ==
    IF ai_response = <<>> THEN FALSE
    ELSE Len(ai_response) >= Len(completion_marker)
         /\ SubSeq(ai_response, 1, Len(completion_marker)) = completion_marker

\* CompletionDetector.is_topic_completed
is_topic_completed(ai_response) ==
    IF ai_response = <<>> THEN FALSE
    ELSE Contains(ai_response, completion_marker)

\* Python: s.replace(marker, ""): one pass, left to right, the occurrences
\* found do not overlap and the result is not scanned again
RECURSIVE str_replace(_)
str_replace(s) ==
    IF s = <<>> THEN <<>>
    ELSE IF Len(s) >= Len(completion_marker)
            /\ SubSeq(s, 1, Len(completion_marker)) = completion_marker
         THEN str_replace(From(s, Len(completion_marker) + 1))
         ELSE <<Head(s)>> \o str_replace(Tail(s))

\* the length of the longest prefix of s made of whitespace only
RECURSIVE WsPrefixLen(_)
WsPrefixLen(s) ==
    IF s = <<>> \/ Head(s) \notin Whitespace THEN 0
    ELSE 1 + WsPrefixLen(Tail(s))

Max(S) == CHOOSE m \in S : \A k \in S : k <= m

\* Python: re.sub(r'\n\s*\n\s*\n', '\n\n', s).  A match starts at a newline;
\* both \s* are greedy, so it ends at the last newline of the whitespace run
\* that follows, provided the run holds three newlines or more from there.
RECURSIVE re_sub_newlines(_)
re_sub_newlines(s) ==
    IF s = <<>> THEN <<>>
    ELSE LET newlines == {k \in 1..WsPrefixLen(s) : s[k] = NL}
         IN  IF Head(s) = NL /\ Cardinality(newlines) >= 3
             THEN <<NL, NL>> \o re_sub_newlines(From(s, Max(newlines) + 1))
             ELSE <<Head(s)>> \o re_sub_newlines(Tail(s))

\* Python: s.lstrip()
RECURSIVE lstrip(_)
lstrip(s) ==
    IF s # <<>> /\ Head(s) \in Whitespace THEN lstrip(Tail(s)) ELSE s

\* Python: s.rstrip()
RECURSIVE rstrip(_)
rstrip(s) ==
    IF s # <<>> /\ s[Len(s)] \in Whitespace
    THEN rstrip(SubSeq(s, 1, Len(s) - 1)) ELSE s

\* Python: s.strip()
strip(s) == rstrip(lstrip(s))

\* a remove_completion_marker that tidies every response, with or without
\* the marker
remove_completion_marker_always(ai_response) ==
    strip(re_sub_newlines(str_replace(ai_response)))

\* CompletionDetector.remove_completion_marker
remove_completion_marker(ai_response) ==
    IF ai_response = <<>> \/ ~Contains(ai_response, completion_marker)
    THEN ai_response
    ELSE strip(re_sub_newlines(str_replace(ai_response)))

\* a validate_completion_criteria that does not look at the number of
\* questions
validate_completion_criteria_unguarded(correct_answers, total_questions, required_correct) ==
    correct_answers >= (IF required_correct = <<>> THEN 2
                        ELSE required_correct[1])

\* CompletionDetector.validate_completion_criteria; required_correct is
\* <<>> when the argument is left out (the default, 2) and <<n>> otherwise
validate_completion_criteria(correct_answers, total_questions, required_correct) ==
    IF total_questions < 3 THEN FALSE
    ELSE correct_answers >= (IF required_correct = <<>> THEN 2
                             ELSE required_correct[1])

\* CompletionDetector.extract_completion_info: <<is_completed, cleaned>>
extract_completion_info(ai_response) ==
    <<is_topic_completed(ai_response), remove_completion_marker(ai_response)>>

\* three consecutive newlines somewhere in s
HasNewlineRun(s) == Contains(s, <<NL, NL, NL>>)

-----------------------------------------------------------------------------
(* Optional values: <<>> is None, <<v>> is the value v *)

None == <<>>
Some(v) == <<v>>
IsNone(o) == o = <<>>
Get(o) == o[1]

-----------------------------------------------------------------------------
(* ContextBuilder (app/services/context_builder.py) *)

\* Python: str.lower() on the levels of the model
lower(level) ==
    CASE level = "Beginner" -> "beginner"
      [] level = "Expert" -> "expert"
      [] level = "NOVICE" -> "novice"
      [] level = "Intermediate" -> "intermediate"
      [] level = "Advanced" -> "advanced"
      [] level = "Master" -> "master"
      [] OTHER -> level

\* ContextBuilder._get_difficulty_description
_get_difficulty_description(user_context) ==
    IF \/ IsNone(user_context)
       \/ IsNone(Get(user_context).user_level)
       \/ Get(Get(user_context).user_level) = ""
    THEN "beginner to intermediate"
    ELSE LET level == lower(Get(Get(user_context).user_level))
         IN  CASE level = "beginner" -> "beginner"
               [] level = "novice" -> "beginner"
               [] level = "intermediate" -> "intermediate"
               [] level = "advanced" -> "advanced"
               [] level = "expert" -> "advanced"
               [] OTHER -> "intermediate"

\* ContextBuilder._format_completed_topics
_format_completed_topics(user_context) ==
    IF IsNone(user_context) \/ Get(user_context).completed_topic_ids = <<>>
    THEN <<"- Completed Topics: None (this is their first topic)">>
    ELSE <<"- Completed Topics: ",
           ToString(Len(Get(user_context).completed_topic_ids)),
           " topics completed previously">>

\* ContextBuilder._format_struggles
_format_struggles(user_context) ==
    IF IsNone(user_context) \/ Get(user_context).struggle_topics = <<>>
    THEN <<"- Previous Difficulties: None recorded">>
    ELSE LET st == Get(user_context).struggle_topics
         IN  <<"- Previous Difficulties: ">>
             \o SubSeq(st, 1, IF Len(st) < 3 THEN Len(st) ELSE 3)

\* ContextBuilder._add_learning_objectives
_add_learning_objectives(objectives) ==
    IF IsNone(objectives) \/ Get(objectives) = ""
    THEN <<>>
    ELSE <<"LEARNING OBJECTIVES:", Get(objectives)>>

\* the variables _apply_template passes to str.format
TemplateVariables ==
    {"{course_title}", "{topic_title}", "{topic_description}",
     "{learning_objectives}", "{user_level}", "{completed_topics}",
     "{struggles}", "{completion_marker}"}

\* a chunk of a template that is a replacement field
IsField(chunk) == chunk \in TemplateVariables \cup {"{unknown}"}

\* the value str.format substitutes for a field
FieldValue(chunk, topic, user_context) ==
    CASE chunk = "{course_title}" -> <<topic.course_title>>
      [] chunk = "{topic_title}" -> <<topic.title>>
      [] chunk = "{topic_description}" -> <<topic.description>>
      [] chunk = "{learning_objectives}" ->
            IF IsNone(topic.learning_objectives) THEN <<>>
            ELSE <<Get(topic.learning_objectives)>>
      [] chunk = "{user_level}" -> <<_get_difficulty_description(user_context)>>
      [] chunk = "{completed_topics}" -> _format_completed_topics(user_context)
      [] chunk = "{struggles}" -> _format_struggles(user_context)
      [] chunk = "{completion_marker}" -> completion_marker

\* Python: template.format(**fields); KeyError on a field that is not passed
RECURSIVE str_format(_, _, _)
str_format(template, topic, user_context) ==
    IF template = <<>> THEN [raised |-> "", value |-> <<>>]
    ELSE LET rest == str_format(Tail(template), topic, user_context)
             c == Head(template)
         IN  IF IsField(c) /\ c \notin TemplateVariables
             THEN [raised |-> "KeyError", value |-> <<>>]
             ELSE IF rest.raised # "" THEN rest
             ELSE [raised |-> "",
                   value |-> (IF IsField(c)
                              THEN FieldValue(c, topic, user_context)
                              ELSE <<c>>) \o rest.value]

\* the default prompt of build_system_prompt
DefaultPrompt(topic, user_context) ==
    <<"You are an expert tutor specialized in ", topic.course_title,
      "CURRENT TOPIC: ", topic.title,
      "TOPIC DESCRIPTION:", topic.description>>
    \o _add_learning_objectives(topic.learning_objectives)
    \o <<"STUDENT CONTEXT:", "- Learning Level: ",
         _get_difficulty_description(user_context)>>
    \o _format_completed_topics(user_context)
    \o _format_struggles(user_context)
    \o <<"YOUR TEACHING APPROACH:", "IMPORTANT INSTRUCTIONS:",
         "include the marker ">> \o completion_marker
    \o <<"stay focused on: ", topic.title>>

\* Python's recursion limit, in calls of build_system_prompt
RecursionLimit == 3

\* ContextBuilder.build_system_prompt with ContextBuilder._apply_template:
\* on KeyError _apply_template calls build_system_prompt again with the same
\* topic, whose prompt_template is still set
RECURSIVE build_system_prompt_at(_, _, _)
build_system_prompt_at(topic, user_context, depth) ==
    IF depth > RecursionLimit
    THEN [raised |-> "RecursionError", value |-> <<>>]
    ELSE IF ~IsNone(topic.prompt_template) /\ Get(topic.prompt_template) # <<>>
    THEN LET r == str_format(Get(topic.prompt_template), topic, user_context)
         IN  IF r.raised = "KeyError"
             THEN build_system_prompt_at(topic, user_context, depth + 1)
             ELSE r
    ELSE [raised |-> "", value |-> DefaultPrompt(topic, user_context)]

build_system_prompt(topic, user_context) ==
    build_system_prompt_at(topic, user_context, 1)

\* ContextBuilder.truncate_history
truncate_history(messages, max_messages) ==
    IF Len(messages) <= max_messages THEN messages
    ELSE IF max_messages = 0 THEN messages
    ELSE SubSeq(messages, Len(messages) - max_messages + 1, Len(messages))

-----------------------------------------------------------------------------
(* GeminiClient (app/services/gemini_client.py) *)

\* a build_history_from_messages without the skip of system messages
build_history_keeping_system(messages) ==
    [i \in 1..Len(messages) |->
        [role |-> IF messages[i].role = "assistant" THEN "model" ELSE "user",
         parts |-> <<messages[i].content>>]]

\* GeminiClient.build_history_from_messages: the dicts it builds have the
\* keys "role" and "parts"
RECURSIVE build_history_from_messages(_)
build_history_from_messages(messages) ==
    IF messages = <<>> THEN <<>>
    ELSE LET m == Head(messages)
             gemini_role == IF m.role = "assistant" THEN "model" ELSE "user"
         IN  (IF m.role = "system" THEN <<>>
              ELSE <<[role |-> gemini_role, parts |-> <<m.content>>]>>)
             \o build_history_from_messages(Tail(messages))

Acknowledgment ==
    <<"I understand. I'm ready to provide personalized training based on the context you've provided.">>

\* GeminiClient.start_chat: msg["content"] is read from every dict of the
\* history, a KeyError on a dict that has no such key
start_chat(system_prompt, history) ==
    IF \E i \in 1..Len(history) : "content" \notin DOMAIN history[i]
    THEN [raised |-> "KeyError", value |-> <<>>]
    ELSE LET formatted_history ==
                 [i \in 1..Len(history) |->
                     [role |-> history[i].role, parts |-> <<history[i].content>>]]
         IN  [raised |-> "",
              value |-> IF system_prompt # <<>>
                        THEN <<[role |-> "user", parts |-> <<system_prompt>>],
                               [role |-> "model", parts |-> <<Acknowledgment>>]>>
                             \o formatted_history
                        ELSE formatted_history]

\* a send_message that calls the model again when the call fails
gemini_send_message_retrying(chat, message, reply) ==
    [raised |-> IF IsNone(reply) THEN "Exception" ELSE "",
     value |-> reply,
     calls |-> IF IsNone(reply) THEN 2 ELSE 1]

\* GeminiClient.send_message: one chat.send_message(message); reply is what
\* the model answers, None when the call fails, and the failure is logged
\* and raised again.  calls: how many times the model was called
gemini_send_message(chat, message, reply) ==
    [raised |-> IF IsNone(reply) THEN "Exception" ELSE "",
     value |-> reply,
     calls |-> 1]

-----------------------------------------------------------------------------
(* DotNetClient (app/services/dotnet_client.py): the Progress API *)

UserIds == {1}
CourseIds == {1}
TopicIds == {1, 2, 3}

\* what GET /api/TrainingTopics/{topic_id} answers when it answers
TopicDetailsDTO(topic_id) ==
    [id |-> topic_id,
     title |-> IF topic_id = 1 THEN "Loops" ELSE "Recursion",
     description |-> "description",
     prompt_template |->
        CASE topic_id = 1 -> None
          [] topic_id = 2 -> Some(<<"Teach ", "{topic_title}", " and emit ",
                                    "{completion_marker}">>)
          [] OTHER -> Some(<<"Teach ", "{unknown}">>),
     course_id |-> 1,
     course_title |-> "Programming",
     learning_objectives |-> IF topic_id = 1 THEN None ELSE Some("objectives")]

\* what GET /api/UserProgress/{user_id}/context answers when it answers
UserContextDTO(user_id) ==
    [user_level |-> Some("Beginner"),
     completed_topic_ids |-> <<7>>,
     struggle_topics |-> <<"pointers">>]

\* DotNetClient.get_topic_details: every failure is caught and gives None
get_topic_details(topic_id, http_ok) ==
    IF http_ok THEN Some(TopicDetailsDTO(topic_id)) ELSE None

\* DotNetClient.get_user_context: every failure is caught and gives None
get_user_context(user_id, http_ok) ==
    IF http_ok THEN Some(UserContextDTO(user_id)) ELSE None

\* DotNetClient.notify_topic_completion: one POST; True on a 2xx answer,
\* every failure is caught and gives False
notify_topic_completion(completion_data, http_ok) ==
    [request |-> completion_data, delivered |-> http_ok, returned |-> http_ok]

-----------------------------------------------------------------------------
(* Schemas (app/schemas/session.py) and the ORM rows (app/models) *)

\* the fields of SessionResponse that have no default
SessionResponseRequired ==
    {"id", "user_id", "topic_id", "course_id", "status", "started_at",
     "initial_message"}

\* the attributes of a ChatSession object (its columns and relationships)
ChatSessionAttributes ==
    {"id", "user_id", "topic_id", "course_id", "status", "started_at",
     "completed_at", "messages", "context"}

\* SessionResponse.model_validate(obj) with from_attributes: a required field
\* that obj has no attribute for is a ValidationError (a ValueError)
SessionResponse_model_validate(attributes) ==
    IF SessionResponseRequired \subseteq attributes
    THEN [raised |-> ""]
    ELSE [raised |-> "ValidationError"]

\* SessionDetailResponse(**kwargs): SessionResponse's fields are inherited
SessionDetailResponse_init(kwargs) ==
    IF SessionResponseRequired \subseteq kwargs
    THEN [raised |-> ""]
    ELSE [raised |-> "ValidationError"]

\* the exceptions that are ValueErrors (pydantic's ValidationError is one)
IsValueError(raised) == raised \in {"ValueError", "ValidationError"}

\* Python: json.dumps(list)
json_dumps(list) == [json |-> list]

-----------------------------------------------------------------------------
(* The database session: db.add, db.flush, db.commit *)

\* the committed tables as one value
Committed ==
    [chat_sessions |-> chat_sessions, chat_messages |-> chat_messages,
     session_contexts |-> session_contexts]

\* db.add(ChatSession) and db.flush(): the row is in the transaction, and
\* no message has its id yet
add_session(tx, row) ==
    [tx EXCEPT !.chat_sessions = Append(@, row),
               !.chat_messages = Append(@, <<>>)]

\* a db.add(ChatMessage) that writes over the last row of the session
add_message_overwriting(tx, row) ==
    [tx EXCEPT !.chat_messages[row.session_id] =
                   Append(SubSeq(@, 1, Len(@) - 1), row)]

\* db.add(ChatMessage) (and db.flush()): the row is in the transaction
add_message(tx, row) ==
    [tx EXCEPT !.chat_messages[row.session_id] = Append(@, row)]

\* a db.add(SessionContext) that is left out
add_context_skipped(tx, row) == tx

\* db.add(SessionContext)
add_context(tx, row) ==
    [tx EXCEPT !.session_contexts = Append(@, row)]

\* a flush that commits
flush_committing(committed, tx) == tx

\* db.flush(): the pending rows are sent to the database inside the
\* transaction; what is committed does not change
flush(committed, tx) == committed

\* db.commit(): the transaction's rows are what is committed
commit(committed, tx) == tx

\* the dependency that gives a request its database session, when the
\* request ends (raised: what the handler raised, "" when it returned): the
\* session is closed and what the handler did not commit is rolled back
get_db(committed, tx, raised) == committed

\* the rows of a table that satisfy ORDER BY timestamp: every order of the
\* row ids in which timestamps never decrease (ties are in any order)
RECURSIVE OrderByTimestamp(_, _)
OrderByTimestamp(ids, table) ==
    IF ids = {} THEN {<<>>}
    ELSE UNION {
           {<<i>> \o rest : rest \in OrderByTimestamp(ids \ {i}, table)} :
             i \in {j \in ids :
                      \A k \in ids : table[j].timestamp <= table[k].timestamp}}

-----------------------------------------------------------------------------
(* SessionManager (app/services/session_manager.py) *)

\* datetime.utcnow(): how far the clock moves between two reads.  The reads
\* that stamp two messages of a session are separated by a database or a
\* network round trip, so under a clock that is finer than a round trip the
\* later read is later (Later); a coarse or adjusted clock may also give the
\* same value twice (Ticks)
Later == {1}
Ticks == {0, 1}

RECURSIVE MaxTimestamp(_)
MaxTimestamp(rows) ==
    IF rows = <<>> THEN 0
    ELSE LET m == MaxTimestamp(Tail(rows))
         IN  IF Head(rows).timestamp > m THEN Head(rows).timestamp ELSE m

\* the clock when a request for a session arrives, on the scale of the
\* session's rows (timestamps are compared within one session only): no
\* stored timestamp is in the future
now(rows) == MaxTimestamp(rows)

\* _get_active_session without the status condition of its query
_get_active_session_any_status(session_id, sessions) ==
    IF session_id \in 1..Len(sessions) THEN Some(session_id) ELSE None

\* _get_active_session that takes every session that is not completed
_get_active_session_not_completed(session_id, sessions) ==
    IF session_id \in 1..Len(sessions)
       /\ sessions[session_id].status # "completed"
    THEN Some(session_id)
    ELSE None

\* SessionManager._get_active_session: the id of the row, or None
_get_active_session(session_id, sessions) ==
    IF session_id \in 1..Len(sessions) /\ sessions[session_id].status = "active"
    THEN Some(session_id)
    ELSE None

\* SessionManager._get_message_history: the (role, content) rows of the
\* session, ORDER BY timestamp; the set of the lists the query may return
_get_message_history(session_id, messages) ==
    LET rows == messages[session_id]
    IN  {[k \in 1..Len(o) |->
            [role |-> rows[o[k]].role, content |-> rows[o[k]].content]] :
         o \in OrderByTimestamp(1..Len(rows), rows)}

\* Python: [m for m in history if m.role != "system"]
RECURSIVE WithoutSystem(_)
WithoutSystem(history) ==
    IF history = <<>> THEN <<>>
    ELSE (IF Head(history).role # "system" THEN <<Head(history)>> ELSE <<>>)
         \o WithoutSystem(Tail(history))

\* Python: list[:-1]
AllButLast(list) ==
    IF list = <<>> THEN <<>> ELSE SubSeq(list, 1, Len(list) - 1)

\* a send_message that keeps the chat handle of the request before it: the
\* conversation goes on from the turn that request sent and the reply it got
gemini_chat_carried(history) ==
    IF /\ response.op = "send_message"
       /\ ~IsNone(response.gemini_call)
       /\ ~IsNone(Get(response.gemini_call).reply)
    THEN LET call == Get(response.gemini_call)
         IN  [raised |-> "",
              value |-> call.seed
                        \o <<[role |-> "user", parts |-> <<call.message>>],
                             [role |-> "model", parts |-> <<Get(call.reply)>>]>>]
    ELSE start_chat(IF history # <<>> /\ history[1].role = "system"
                    THEN history[1].content ELSE <<>>,
                    build_history_from_messages(
                        AllButLast(WithoutSystem(history))))

\* send_message, lines 157-171: the chat handle built from the history
gemini_chat(history) ==
    LET system_prompt_msg ==
            IF history # <<>> /\ history[1].role = "system"
            THEN Some(history[1]) ELSE None
        system_prompt ==
            IF IsNone(system_prompt_msg) THEN <<>>
            ELSE Get(system_prompt_msg).content
        chat_history ==
            truncate_history(WithoutSystem(history), max_conversation_history)
    IN  start_chat(system_prompt,
                   build_history_from_messages(AllButLast(chat_history)))

\* send_message, lines 145-152: the User message row
user_msg(session_id, user_message, timestamp) ==
    [session_id |-> session_id, role |-> "user", content |-> user_message,
     timestamp |-> timestamp]

\* the Assistant message row with the cleaned text as its content
ai_msg_cleaned(session_id, ai_response_raw, ai_response_clean, timestamp) ==
    [session_id |-> session_id, role |-> "assistant",
     content |-> ai_response_clean, timestamp |-> timestamp]

\* send_message, lines 180-186: the Assistant message row
ai_msg(session_id, ai_response_raw, ai_response_clean, timestamp) ==
    [session_id |-> session_id, role |-> "assistant",
     content |-> ai_response_raw, timestamp |-> timestamp]

\* send_message, lines 195-200: the AIMessageResponse
AIMessageResponse(session_id, ai_response_raw, ai_response_clean, is_completed) ==
    [session_id |-> session_id, ai_message |-> ai_response_clean,
     topic_completed |-> is_completed]

\* _complete_session that raises when the notification fails
_complete_session_escalating(session_id, tx, utcnow, http_ok) ==
    LET row == [tx.chat_sessions[session_id] EXCEPT
                   !.status = "completed", !.completed_at = Some(utcnow)]
        completion_data ==
            [user_id |-> row.user_id, topic_id |-> row.topic_id,
             course_id |-> row.course_id, completed_at |-> utcnow,
             session_id |-> session_id]
    IN  [tx |-> [tx EXCEPT !.chat_sessions[session_id] = row],
         post |-> notify_topic_completion(completion_data, http_ok),
         raised |-> IF http_ok THEN "" ELSE "HTTPError"]

\* _complete_session that leaves completed_at unset
_complete_session_unstamped(session_id, tx, utcnow, http_ok) ==
    LET row == [tx.chat_sessions[session_id] EXCEPT !.status = "completed"]
        completion_data ==
            [user_id |-> row.user_id, topic_id |-> row.topic_id,
             course_id |-> row.course_id, completed_at |-> utcnow,
             session_id |-> session_id]
    IN  [tx |-> [tx EXCEPT !.chat_sessions[session_id] = row],
         post |-> notify_topic_completion(completion_data, http_ok),
         raised |-> ""]

\* SessionManager._complete_session: the row with status and completed_at
\* set, and the POST made to the Progress API, whose result is only logged
_complete_session(session_id, tx, utcnow, http_ok) ==
    LET row == [tx.chat_sessions[session_id] EXCEPT
                   !.status = "completed", !.completed_at = Some(utcnow)]
        completion_data ==
            [user_id |-> row.user_id, topic_id |-> row.topic_id,
             course_id |-> row.course_id, completed_at |-> utcnow,
             session_id |-> session_id]
    IN  [tx |-> [tx EXCEPT !.chat_sessions[session_id] = row],
         post |-> notify_topic_completion(completion_data, http_ok),
         raised |-> ""]

\* start_session, lines 78-84: the ChatSession row
ChatSession(request, utcnow) ==
    [user_id |-> request.user_id, topic_id |-> request.topic_id,
     course_id |-> request.course_id, status |-> "active",
     started_at |-> utcnow, completed_at |-> None]

\* start_session, lines 89-98: the SessionContext row
SessionContext(session_id, topic_details, user_context) ==
    [session_id |-> session_id,
     user_level |-> IF IsNone(user_context) THEN None
                    ELSE Get(user_context).user_level,
     completed_topics_json |->
        IF IsNone(user_context) THEN None
        ELSE Some(json_dumps(Get(user_context).completed_topic_ids)),
     struggles_json |->
        IF IsNone(user_context) THEN None
        ELSE Some(json_dumps(Get(user_context).struggle_topics)),
     course_title |-> topic_details.course_title,
     topic_title |-> topic_details.title,
     learning_objectives |-> topic_details.learning_objectives,
     prompt_template |-> topic_details.prompt_template]

\* start_session that saves the system prompt twice
start_messages_twice(session_id, system_prompt, utcnow) ==
    <<[session_id |-> session_id, role |-> "system",
       content |-> system_prompt, timestamp |-> utcnow],
      [session_id |-> session_id, role |-> "system",
       content |-> system_prompt, timestamp |-> utcnow]>>

\* start_session, lines 102-108: the rows start_session adds for the
\* transcript
start_messages(session_id, system_prompt, utcnow) ==
    <<[session_id |-> session_id, role |-> "system",
       content |-> system_prompt, timestamp |-> utcnow]>>

\* routes that answer every exception with 500
status_code_all_500(op, raised) ==
    IF raised = "" THEN (IF op = "start_session" THEN 201 ELSE 200) ELSE 500

\* app/api/sessions.py: the status code of each route for what the
\* session manager raised
status_code(op, raised) ==
    CASE raised = "" ->
            (IF op = "start_session" THEN 201 ELSE 200)
      [] raised # "" /\ IsValueError(raised) ->
            (IF op = "start_session" THEN 400
             ELSE IF op = "send_message" THEN 404 ELSE 500)
      [] raised = "NotFound" -> 404
      [] OTHER -> 500

-----------------------------------------------------------------------------
(* The requests *)

UserTexts == {<<"a">>}

\* the session ids of the requests: every id a session can have, and one
\* that no session has
SessionIds == 1..(MaxSessions + 1)

\* the replies the conversation model gives in the model
Replies ==
    {<<"a", SP>>,
     <<"a", NL, "{TOPIC_", "COMPLETED}">>}

\* the requests that may be in flight at the same time, each with its own
\* database session, and the text each of them sends
Callers == {"A", "B"}

TextOf(c) == IF c = "A" THEN <<"a">> ELSE <<"b">>

\* no request of caller c is in flight
Idle == [pc |-> "idle"]

NoneInFlight == [c \in Callers |-> Idle]

Init ==
    /\ chat_sessions = <<>>
    /\ chat_messages = <<>>
    /\ session_contexts = <<>>
    /\ gemini_calls = 0
    /\ notifications = [s \in SessionIds |-> <<>>]
    /\ response = [op |-> "none"]
    /\ text = <<>>
    /\ extracted = None
    /\ retry = [state |-> "idle"]
    /\ args = <<>>
    /\ returned = <<>>
    /\ in_flight = NoneInFlight

\* the state after a request: the tables, the clock, the collaborators and
\* what the caller got
Finish(db, calls, posts, resp) ==
    /\ chat_sessions' = db.chat_sessions
    /\ chat_messages' = db.chat_messages
    /\ session_contexts' = db.session_contexts
    /\ gemini_calls' = calls
    /\ notifications' = posts
    /\ response' = resp
    /\ UNCHANGED <<text, extracted, retry, args, returned, in_flight>>

\* POST /api/sessions/start: SessionManager.start_session under the route's
\* exception handlers.  context_ok: whether the user-context lookup answers
\* when it is made; ticks: how far the clock may move between two utcnow()
\* reads
StartSession(request, context_ok, ticks) ==
    \E topic_ok \in BOOLEAN :
      LET topic_details == get_topic_details(request.topic_id, topic_ok)
          \* context_lookup: None when get_user_context was not called,
          \* else whether it gave a context
          Answer(db, raised, created, context_lookup) ==
              Finish(db, gemini_calls, notifications,
                     [op |-> "start_session", request |-> request,
                      topic_found |-> ~IsNone(topic_details),
                      context_lookup |-> context_lookup,
                      raised |-> raised,
                      status_code |-> status_code("start_session", raised),
                      created |-> created])
      IN
      IF IsNone(topic_details)
      THEN Answer(Committed, "ValueError", None, None)
      ELSE
      LET user_context == get_user_context(request.user_id, context_ok)
          looked_up == Some(~IsNone(user_context))
          system_prompt == build_system_prompt(Get(topic_details), user_context)
      IN
      IF system_prompt.raised # ""
      THEN Answer(Committed, system_prompt.raised, None, looked_up)
      ELSE
      /\ Len(chat_sessions) < MaxSessions
      /\ \E d1, d2 \in ticks, commit_ok \in BOOLEAN :
           LET t1 == now(<<>>) + d1
               t2 == t1 + d2
               id == Len(chat_sessions) + 1
               tx1 == add_session(Committed, ChatSession(request, t1))
               tx2 == add_context(tx1, SessionContext(id, Get(topic_details),
                                                      user_context))
               rows == start_messages(id, system_prompt.value, t2)
               tx3 == [tx2 EXCEPT !.chat_messages[id] = @ \o rows]
               validated == SessionResponse_model_validate(ChatSessionAttributes)
           IN
           IF ~commit_ok
           THEN Answer(get_db(flush(Committed, tx1), tx3, "DBAPIError"),
                       "DBAPIError", None, looked_up)
           ELSE Answer(get_db(commit(flush(Committed, tx1), tx3), tx3,
                              validated.raised),
                       validated.raised, Some(id), looked_up)

\* POST /api/sessions/{session_id}/message: SessionManager.send_message
\* under the route's exception handlers.  ticks: as for StartSession
SendMessage(session_id, user_message, ticks) ==
    LET session == _get_active_session(session_id, chat_sessions)
        Answer(db, call, posts, raised, body) ==
            Finish(db,
                   gemini_calls + (IF IsNone(call) THEN 0 ELSE Get(call).calls),
                   posts,
                   [op |-> "send_message", session_id |-> session_id,
                    message |-> user_message, raised |-> raised,
                    status_code |-> status_code("send_message", raised),
                    gemini_call |-> call,
                    body |-> body])
    IN
    IF IsNone(session)
    THEN Answer(Committed, None, notifications, "ValueError", None)
    ELSE
    \E d1 \in ticks :
      LET t1 == now(chat_messages[session_id]) + d1
          tx1 == add_message(Committed, user_msg(session_id, user_message, t1))
      IN
      \E history \in _get_message_history(session_id, tx1.chat_messages) :
        LET chat == gemini_chat(history)
        IN
        IF chat.raised # ""
        THEN Answer(get_db(flush(Committed, tx1), tx1, chat.raised), None,
                    notifications, chat.raised, None)
        ELSE
        /\ gemini_calls < MaxCalls
        /\ \E reply \in {None} \cup {Some(r) : r \in Replies} :
             LET sent == gemini_send_message(chat.value, user_message, reply)
                 called == Some([seed |-> chat.value,
                                 message |-> user_message,
                                 reply |-> sent.value,
                                 calls |-> sent.calls])
             IN
             IF sent.raised # ""
             THEN Answer(get_db(flush(Committed, tx1), tx1, sent.raised),
                         called, notifications, sent.raised, None)
             ELSE
             \E d2 \in ticks, http_ok, commit_ok \in BOOLEAN :
               LET ai_response_raw == Get(sent.value)
                   info == extract_completion_info(ai_response_raw)
                   is_completed == info[1]
                   ai_response_clean == info[2]
                   t2 == t1 + d2
                   tx2 == add_message(tx1, ai_msg(session_id, ai_response_raw,
                                                  ai_response_clean, t2))
                   completion == _complete_session(session_id, tx2, t2, http_ok)
                   tx3 == IF is_completed THEN completion.tx ELSE tx2
                   posts == IF is_completed
                            THEN [notifications EXCEPT ![session_id] =
                                    Append(@, [request |-> completion.post.request,
                                               delivered |-> completion.post.delivered])]
                            ELSE notifications
                   raised == IF is_completed /\ completion.raised # ""
                             THEN completion.raised
                             ELSE IF ~commit_ok THEN "DBAPIError" ELSE ""
                   flushed == flush(Committed, tx1)
               IN
               Answer(get_db(IF raised = "" THEN commit(flushed, tx3)
                             ELSE flushed, tx3, raised),
                      called, posts, raised,
                      IF raised = ""
                      THEN Some(AIMessageResponse(session_id, ai_response_raw,
                                                  ai_response_clean,
                                                  is_completed))
                      ELSE None)

\* GET /api/sessions/{session_id}: SessionManager.get_session_details under
\* the route's exception handlers; it writes nothing
GetSession(session_id) ==
    LET found == session_id \in 1..Len(chat_sessions)
        kwargs == {"id", "user_id", "topic_id", "course_id", "status",
                   "started_at", "completed_at", "context", "messages"}
        raised == IF ~found THEN "NotFound"
                  ELSE SessionDetailResponse_init(kwargs).raised
    IN  Finish(Committed, gemini_calls, notifications,
               [op |-> "get_session", session_id |-> session_id,
                raised |-> raised,
                status_code |-> status_code("get_session", raised)])

\* the collaborator that abandons sessions: the only writer of the status
\* "abandoned", outside the orchestrator
Abandon(session_id) ==
    /\ session_id \in 1..Len(chat_sessions)
    /\ chat_sessions[session_id].status = "active"
    /\ chat_sessions' = [chat_sessions EXCEPT ![session_id].status = "abandoned"]
    /\ response' = [op |-> "abandon", session_id |-> session_id]
    /\ UNCHANGED <<chat_messages, session_contexts, gemini_calls,
                   notifications, text, extracted, retry,
                   args, returned, in_flight>>

\* the requests of Spec: one user, topics 1 (found or not) and 3 (its
\* template names an unknown variable)
Requests ==
    [user_id : UserIds, topic_id : {1, 3}, course_id : CourseIds]

Next ==
    \/ \E request \in Requests : StartSession(request, TRUE, Later)
    \/ \E session_id \in SessionIds, user_message \in UserTexts :
         SendMessage(session_id, user_message, Later)
    \/ \E session_id \in SessionIds : GetSession(session_id)
    \/ \E session_id \in SessionIds : Abandon(session_id)

Spec == Init /\ [][Next]_vars

-----------------------------------------------------------------------------
(* SpecStart: session creation with either lookup of the Progress API      *)
(* failing, on every topic of the model                                    *)

StartRequests ==
    [user_id : UserIds, topic_id : TopicIds, course_id : CourseIds]

NextStart ==
    \/ \E request \in StartRequests, context_ok \in BOOLEAN :
         StartSession(request, context_ok, Later)
    \/ \E session_id \in SessionIds : GetSession(session_id)
    \/ \E session_id \in SessionIds : Abandon(session_id)

SpecStart == Init /\ [][NextStart]_vars

-----------------------------------------------------------------------------
(* SpecConcurrent: send_message requests that overlap.  A request gives up *)
(* control at every await; each request has its own database session, a    *)
(* statement sees what is committed when it runs and the rows of its own   *)
(* transaction, and nothing makes a request wait for another               *)

\* the pending rows of caller c's transaction on session s
RowsOf(c, s) ==
    IF /\ in_flight[c].pc \in {"flushed", "seeded", "replied"}
       /\ in_flight[c].session_id = s
    THEN in_flight[c].rows
    ELSE <<>>

\* datetime.utcnow() when requests overlap: later than every timestamp that
\* was already read for the session, committed or not
clock(s) == MaxTimestamp(chat_messages[s] \o RowsOf("A", s) \o RowsOf("B", s))

\* what the statements of caller c's transaction see: the committed tables
\* and the rows c flushed
Visible(c) ==
    [Committed EXCEPT !.chat_messages[in_flight[c].session_id] =
                          @ \o in_flight[c].rows]

\* db.commit() of a request in flight: its INSERTs and, when it completed
\* the session, its UPDATE of the session row reach the committed tables as
\* they are now
commit_in_flight(committed, call) ==
    [committed EXCEPT
        !.chat_messages[call.session_id] = @ \o call.rows,
        !.chat_sessions[call.session_id] =
            IF IsNone(call.completed_at) THEN @
            ELSE [@ EXCEPT !.status = "completed",
                           !.completed_at = call.completed_at]]

\* send_message, lines 161-173: the history argument of start_chat
history_argument(history) ==
    build_history_from_messages(
        AllButLast(truncate_history(WithoutSystem(history),
                                    max_conversation_history)))

\* what is left unchanged by a step of a request in flight that neither
\* commits nor calls a collaborator
RequestFrame == UNCHANGED <<text, extracted, retry, args, returned>>

\* send_message, lines 139-142: the request of caller c arrives and looks
\* its session up
Begin(c, session_id) ==
    /\ in_flight[c] = Idle
    /\ LET session == _get_active_session(session_id, chat_sessions)
       IN  IF IsNone(session)
           THEN /\ in_flight' = in_flight
                /\ response' = [op |-> "send_message", caller |-> c,
                                session_id |-> session_id, step |-> "begin",
                                raised |-> "ValueError"]
           ELSE /\ in_flight' = [in_flight EXCEPT ![c] =
                                    [pc |-> "loaded", session_id |-> session_id]]
                /\ response' = [op |-> "send_message", caller |-> c,
                                session_id |-> session_id, step |-> "begin",
                                raised |-> ""]
    /\ UNCHANGED <<dbvars, gemini_calls, notifications>>
    /\ RequestFrame

\* send_message, lines 145-152: the User message is added and flushed
AddUserMessage(c) ==
    /\ in_flight[c].pc = "loaded"
    /\ \E d1 \in Later :
         LET s == in_flight[c].session_id
             row == user_msg(s, TextOf(c), clock(s) + d1)
         IN  /\ clock(s) + d1 <= MaxTime
             /\ in_flight' = [in_flight EXCEPT ![c] =
                                 [pc |-> "flushed", session_id |-> s,
                                  rows |-> <<row>>]]
             /\ response' = [op |-> "send_message", caller |-> c,
                             session_id |-> s, step |-> "flush",
                             raised |-> ""]
    /\ UNCHANGED <<dbvars, gemini_calls, notifications>>
    /\ RequestFrame

\* send_message, lines 155-174: the history is read and the chat is started
ReadHistory(c) ==
    /\ in_flight[c].pc = "flushed"
    /\ LET s == in_flight[c].session_id
       IN  \E history \in _get_message_history(s, Visible(c).chat_messages) :
             LET chat == gemini_chat(history)
                 resp == [op |-> "send_message", caller |-> c,
                          session_id |-> s, step |-> "history",
                          read |-> history,
                          own |-> [role |-> "user", content |-> TextOf(c)],
                          history |-> history_argument(history),
                          raised |-> chat.raised]
             IN  /\ response' = resp
                 /\ in_flight' = [in_flight EXCEPT ![c] =
                        IF chat.raised # "" THEN Idle
                        ELSE [pc |-> "seeded", session_id |-> s,
                              rows |-> in_flight[c].rows,
                              seed |-> chat.value]]
    /\ UNCHANGED <<dbvars, gemini_calls, notifications>>
    /\ RequestFrame

\* send_message, lines 174-191: the model is called; its reply is added as
\* the Assistant message and, when it carries the marker, the session row
\* is changed and the Progress API is notified
Reply(c) ==
    /\ in_flight[c].pc = "seeded"
    /\ gemini_calls < MaxCalls
    /\ LET call == in_flight[c]
           s == call.session_id
       IN  \E reply \in {None} \cup {Some(r) : r \in Replies} :
             LET sent == gemini_send_message(call.seed, TextOf(c), reply)
                 resp(raised) == [op |-> "send_message", caller |-> c,
                                  session_id |-> s, step |-> "reply",
                                  raised |-> raised]
             IN  /\ gemini_calls' = gemini_calls + sent.calls
                 /\ IF sent.raised # ""
                    THEN /\ in_flight' = [in_flight EXCEPT ![c] = Idle]
                         /\ response' = resp(sent.raised)
                         /\ UNCHANGED notifications
                    ELSE \E d2 \in Later, http_ok \in BOOLEAN :
                           LET ai_response_raw == Get(sent.value)
                               info == extract_completion_info(ai_response_raw)
                               is_completed == info[1]
                               t2 == clock(s) + d2
                               tx2 == add_message(Visible(c),
                                         ai_msg(s, ai_response_raw, info[2], t2))
                               completion ==
                                   _complete_session(s, tx2, t2, http_ok)
                           IN  /\ t2 <= MaxTime
                               /\ in_flight' = [in_flight EXCEPT ![c] =
                                     [pc |-> "replied", session_id |-> s,
                                      rows |-> Append(call.rows,
                                                  ai_msg(s, ai_response_raw,
                                                         info[2], t2)),
                                      completed_at |->
                                          IF is_completed THEN Some(t2)
                                          ELSE None,
                                      body |-> AIMessageResponse(
                                                  s, ai_response_raw, info[2],
                                                  is_completed)]]
                               /\ notifications' =
                                     IF is_completed
                                     THEN [notifications EXCEPT ![s] =
                                             Append(@, [request |-> completion.post.request,
                                                        delivered |-> completion.post.delivered])]
                                     ELSE notifications
                               /\ response' = resp("")
    /\ UNCHANGED dbvars
    /\ RequestFrame

\* send_message, lines 193-200: db.commit() and the answer
CommitRequest(c) ==
    /\ in_flight[c].pc = "replied"
    /\ \E commit_ok \in BOOLEAN :
         LET call == in_flight[c]
             raised == IF commit_ok THEN "" ELSE "DBAPIError"
             db == IF commit_ok THEN commit_in_flight(Committed, call)
                   ELSE get_db(Committed, Visible(c), raised)
         IN  /\ chat_sessions' = db.chat_sessions
             /\ chat_messages' = db.chat_messages
             /\ session_contexts' = db.session_contexts
             /\ response' = [op |-> "send_message", caller |-> c,
                             session_id |-> call.session_id,
                             step |-> "commit", raised |-> raised,
                             body |-> IF commit_ok THEN Some(call.body)
                                      ELSE None]
    /\ in_flight' = [in_flight EXCEPT ![c] = Idle]
    /\ UNCHANGED <<gemini_calls, notifications>>
    /\ RequestFrame

\* the requests that create the sessions of SpecConcurrent
ConcurrentRequests ==
    [user_id : UserIds, topic_id : {1}, course_id : CourseIds]

\* the sessions the overlapping requests are for: the first session, and
\* one that does not exist
ConcurrentSessionIds == {1, MaxSessions + 1}

NextConcurrent ==
    \/ \E request \in ConcurrentRequests : StartSession(request, TRUE, Later)
    \/ \E c \in Callers, session_id \in ConcurrentSessionIds :
         Begin(c, session_id)
    \/ \E c \in Callers : AddUserMessage(c)
    \/ \E c \in Callers : ReadHistory(c)
    \/ \E c \in Callers : Reply(c)
    \/ \E c \in Callers : CommitRequest(c)

SpecConcurrent == Init /\ [][NextConcurrent]_vars

-----------------------------------------------------------------------------
(* SpecText: the completion detector applied to every text of up to MaxLen *)
(* chunks                                                                  *)

Texts == UNION {[1..n -> Alphabet] : n \in 0..MaxLen}

InitText ==
    /\ chat_sessions = <<>>
    /\ chat_messages = <<>>
    /\ session_contexts = <<>>
    /\ gemini_calls = 0
    /\ notifications = [s \in SessionIds |-> <<>>]
    /\ response = [op |-> "none"]
    /\ text \in Texts
    /\ extracted = None
    /\ retry = [state |-> "idle"]
    /\ args = <<>>
    /\ returned = <<>>
    /\ in_flight = NoneInFlight

\* is_completed, ai_response_clean = extract_completion_info(ai_response_raw)
Extract ==
    /\ IsNone(extracted)
    /\ extracted' = Some(extract_completion_info(text))
    /\ UNCHANGED <<dbvars, gemini_calls, notifications, response, text,
                   retry, args, returned, in_flight>>

NextText == Extract

SpecText == InitText /\ [][NextText]_vars

-----------------------------------------------------------------------------
(* retry_with_backoff (app/utils/retry.py) and the functions it decorates  *)

\* the defaults of retry_with_backoff
DefaultMaxDelay == 60
DefaultExponentialBase == 2

\* @retry_with_backoff(max_attempts=5, base_delay=1.0) on the operations of
\* DotNetClient
DotNetMaxAttempts == 5
DotNetBaseDelay == 1

\* the operations of DotNetClient that are decorated
DotNetOperations ==
    {"get_user_context", "get_topic_details", "notify_topic_completion"}

\* the exception classes of the model: httpx.HTTPStatusError and
\* httpx.TimeoutException (both httpx.HTTPError), the builtin
\* ConnectionError, and ValueError (a decode or validation failure)
ErrorClasses ==
    {"HTTPStatusError", "TimeoutException", "ConnectionError", "ValueError"}

\* network and timeout failures
TransientFailures == {"TimeoutException", "ConnectionError"}

\* what one execution of the function's body meets: "ok", or the exception
\* raised inside it
Outcomes == {"ok"} \cup ErrorClasses

\* a policy that retries on every exception class
is_retryable_any(class) == TRUE

\* except exceptions as e, for the default exceptions = (httpx.HTTPError,
\* httpx.TimeoutException, ConnectionError)
is_retryable(class) ==
    class \in {"HTTPStatusError", "TimeoutException", "ConnectionError"}

\* operations of DotNetClient that let the exception of the request out
call_func_raising(func, outcome) ==
    [raised |-> IF outcome = "ok" THEN "" ELSE outcome,
     value |-> IF func = "notify_topic_completion" THEN "True" ELSE "value"]

\* await func(*args, **kwargs) as the wrapper sees it.  A plain operation
\* returns its value or raises what it met; the operations of DotNetClient
\* catch every exception of the request in their own try block and return
\* None (False for notify_topic_completion)
call_func(func, outcome) ==
    IF func \in DotNetOperations
    THEN [raised |-> "",
          value |-> IF func = "notify_topic_completion"
                    THEN (IF outcome = "ok" THEN "True" ELSE "False")
                    ELSE (IF outcome = "ok" THEN "value" ELSE "None")]
    ELSE [raised |-> IF outcome = "ok" THEN "" ELSE outcome,
          value |-> "value"]

RECURSIVE Pow(_, _)
Pow(b, e) == IF e = 0 THEN 1 ELSE b * Pow(b, e - 1)

\* a delay that is not capped by max_delay
delay_uncapped(r) == r.base_delay * Pow(r.exponential_base, r.attempt - 1)

\* delay = min(base_delay * (exponential_base ** (attempt - 1)), max_delay)
delay(r) ==
    LET d == r.base_delay * Pow(r.exponential_base, r.attempt - 1)
    IN  IF d < r.max_delay THEN d ELSE r.max_delay

\* one iteration of the wrapper's loop that, when the attempts are used up,
\* raises the first exception it caught
wrapper_attempt_first_error(r, outcome) ==
    LET res == call_func(r.func, outcome)
        called == [r EXCEPT !.calls = @ + 1,
                            !.seen = Append(@, IF res.raised = "" THEN "return"
                                               ELSE res.raised),
                            !.requests = Append(@, outcome)]
        e == [class |-> res.raised, attempt |-> r.attempt]
        first == IF IsNone(r.last_exception) THEN e ELSE Get(r.last_exception)
    IN  IF res.raised = ""
        THEN [called EXCEPT !.state = "returned",
                            !.value = Some([result |-> res.value,
                                            attempt |-> r.attempt])]
        ELSE IF ~is_retryable(res.raised)
        THEN [called EXCEPT !.state = "raised", !.error = Some(e)]
        ELSE IF r.attempt = r.max_attempts
        THEN [called EXCEPT !.state = "raised", !.error = Some(first),
                            !.last_exception = Some(first)]
        ELSE [called EXCEPT !.last_exception = Some(first),
                            !.slept = Append(@, delay(r)),
                            !.attempt = @ + 1]

\* wrapper, lines 48-70: one iteration of the loop, for attempt in
\* range(1, max_attempts + 1)
wrapper_attempt(r, outcome) ==
    LET res == call_func(r.func, outcome)
        called == [r EXCEPT !.calls = @ + 1,
                            !.seen = Append(@, IF res.raised = "" THEN "return"
                                               ELSE res.raised),
                            !.requests = Append(@, outcome)]
        e == [class |-> res.raised, attempt |-> r.attempt]
    IN  IF res.raised = ""
        THEN [called EXCEPT !.state = "returned",
                            !.value = Some([result |-> res.value,
                                            attempt |-> r.attempt])]
        ELSE IF ~is_retryable(res.raised)
        THEN [called EXCEPT !.state = "raised", !.error = Some(e)]
        ELSE IF r.attempt = r.max_attempts
        THEN [called EXCEPT !.state = "raised", !.error = Some(e),
                            !.last_exception = Some(e)]
        ELSE [called EXCEPT !.last_exception = Some(e),
                            !.slept = Append(@, delay(r)),
                            !.attempt = @ + 1]

\* wrapper, lines 72-74: the loop is over without a return or a raise
wrapper_after_loop(r) ==
    IF ~IsNone(r.last_exception)
    THEN [r EXCEPT !.state = "raised", !.error = r.last_exception]
    ELSE [r EXCEPT !.state = "returned",
                   !.value = Some([result |-> "None", attempt |-> 0])]

\* the wrapper when it is called
wrapper(func, max_attempts, base_delay, max_delay, exponential_base) ==
    [func |-> func, max_attempts |-> max_attempts, base_delay |-> base_delay,
     max_delay |-> max_delay, exponential_base |-> exponential_base,
     attempt |-> 1, last_exception |-> None,
     calls |-> 0, seen |-> <<>>, requests |-> <<>>, slept |-> <<>>,
     state |-> "running", value |-> None, error |-> None]

\* the policies of the model: those of DotNetClient, and a plain operation
\* under every small policy
Policies ==
    {wrapper(func, DotNetMaxAttempts, DotNetBaseDelay, DefaultMaxDelay,
             DefaultExponentialBase) : func \in DotNetOperations}
    \cup {wrapper("operation", m, b, d, x) :
              m \in (-1)..MaxAttempts, b \in {1, 2}, d \in {3, DefaultMaxDelay},
              x \in {1, DefaultExponentialBase}}

InitRetry ==
    /\ chat_sessions = <<>>
    /\ chat_messages = <<>>
    /\ session_contexts = <<>>
    /\ gemini_calls = 0
    /\ notifications = [s \in SessionIds |-> <<>>]
    /\ response = [op |-> "none"]
    /\ text = <<>>
    /\ extracted = None
    /\ retry \in Policies
    /\ args = <<>>
    /\ returned = <<>>
    /\ in_flight = NoneInFlight

\* the body of the loop runs for the next attempt
Attempt ==
    /\ retry.state = "running"
    /\ retry.attempt \in 1..retry.max_attempts
    /\ \E outcome \in Outcomes : retry' = wrapper_attempt(retry, outcome)
    /\ UNCHANGED <<dbvars, gemini_calls, notifications, response, text,
                   extracted, args, returned, in_flight>>

\* range(1, max_attempts + 1) is used up
AfterLoop ==
    /\ retry.state = "running"
    /\ retry.attempt \notin 1..retry.max_attempts
    /\ retry' = wrapper_after_loop(retry)
    /\ UNCHANGED <<dbvars, gemini_calls, notifications, response, text,
                   extracted, args, returned, in_flight>>

NextRetry == Attempt \/ AfterLoop

SpecRetry == InitRetry /\ [][NextRetry]_vars

\* every attempt ends (the function returns or raises, the sleep is over)
\* and the wrapper goes on
SpecRetryLive == SpecRetry /\ WF_vars(NextRetry)

-----------------------------------------------------------------------------
(* Calls of single functions of the services: args holds the arguments of  *)
(* the call and returned what it gave                                      *)

\* no request was served, and no wrapper runs
NothingElse ==
    /\ chat_sessions = <<>>
    /\ chat_messages = <<>>
    /\ session_contexts = <<>>
    /\ gemini_calls = 0
    /\ notifications = [s \in SessionIds |-> <<>>]
    /\ response = [op |-> "none"]
    /\ text = <<>>
    /\ extracted = None
    /\ retry = [state |-> "idle"]
    /\ in_flight = NoneInFlight

\* the call returns value
Return(value) ==
    /\ IsNone(returned)
    /\ returned' = Some(value)
    /\ UNCHANGED <<dbvars, gemini_calls, notifications, response, text,
                   extracted, retry, args, in_flight>>

\* the (role, content) tuples of the history query
Messages == [role : {"user", "assistant"}, content : {<<"a">>, <<"b">>}]

\* the lists of up to MaxHistory messages
Histories == UNION {[1..n -> Messages] : n \in 0..MaxHistory}

\* SpecTruncate: ContextBuilder.truncate_history(messages, max_messages)
InitTruncate ==
    /\ NothingElse
    /\ args \in [messages : Histories, max_messages : 0..(MaxHistory + 1)]
    /\ returned = None

Truncate == Return(truncate_history(args.messages, args.max_messages))

NextTruncate == Truncate

SpecTruncate == InitTruncate /\ [][NextTruncate]_vars

\* SpecScore: CompletionDetector.validate_completion_criteria(
\* correct_answers, total_questions, required_correct)
InitScore ==
    /\ NothingElse
    /\ args \in [correct_answers : (-1)..MaxScore,
                  total_questions : (-1)..MaxScore,
                  required_correct : {<<>>} \cup {<<n>> : n \in (-1)..MaxScore}]
    /\ returned = None

Validate ==
    Return(validate_completion_criteria(args.correct_answers,
                                        args.total_questions,
                                        args.required_correct))

NextScore == Validate

SpecScore == InitScore /\ [][NextScore]_vars

\* SpecChat: GeminiClient.start_chat(system_prompt, history), with the
\* histories its caller passes: what build_history_from_messages makes of
\* a list of messages
InitChat ==
    /\ NothingElse
    /\ args \in [system_prompt : {<<>>, <<"prompt">>},
                  history : {build_history_from_messages(messages) :
                                messages \in Histories}]
    /\ returned = None

StartChat == Return(start_chat(args.system_prompt, args.history))

NextChat == StartChat

SpecChat == InitChat /\ [][NextChat]_vars

\* the (role, content) tuples of stored messages of every role
StoredMessages ==
    [role : {"system", "user", "assistant"}, content : {<<"a">>, <<"b">>}]

\* the lists of up to MaxHistory stored messages
StoredHistories == UNION {[1..n -> StoredMessages] : n \in 0..MaxHistory}

\* SpecBuild: GeminiClient.build_history_from_messages(messages)
InitBuild ==
    /\ NothingElse
    /\ args \in [messages : StoredHistories]
    /\ returned = None

Build == Return(build_history_from_messages(args.messages))

NextBuild == Build

SpecBuild == InitBuild /\ [][NextBuild]_vars

\* the user levels of the model: the five of the lookup in some spellings,
\* two that the lookup does not have, and the empty string
UserLevels ==
    {"beginner", "Beginner", "novice", "NOVICE", "intermediate",
     "Intermediate", "advanced", "Advanced", "expert", "Expert",
     "master", "Master", ""}

\* the user contexts get_user_context may give: None, or a UserContextDTO
\* whose user_level is optional
UserContexts ==
    {None} \cup
    {Some(dto) : dto \in [user_level : {None} \cup {Some(l) : l \in UserLevels},
                          completed_topic_ids : {<<>>, <<7>>},
                          struggle_topics : {<<>>, <<"pointers">>}]}

\* SpecDifficulty: ContextBuilder._get_difficulty_description(user_context)
InitDifficulty ==
    /\ NothingElse
    /\ args \in [user_context : UserContexts]
    /\ returned = None

Describe == Return(_get_difficulty_description(args.user_context))

NextDifficulty == Describe

SpecDifficulty == InitDifficulty /\ [][NextDifficulty]_vars

-----------------------------------------------------------------------------
(* Properties of the orchestrator, under Spec *)

Exists(s) == s \in 1..Len(chat_sessions)

IsActive(s) == Exists(s) /\ chat_sessions[s].status = "active"

\* the step is a send_message request for session s
SendStep(s) ==
    /\ response'.op = "send_message"
    /\ response'.session_id = s

\* the reply the conversation model gave to the request of response r
ReplyOf(r) == Get(Get(r.gemini_call).reply)

\* the request of response r got a reply from the conversation model
HasReply(r) == ~IsNone(r.gemini_call) /\ ~IsNone(Get(r.gemini_call).reply)

\* C1: send_message on a session that does not exist, or that is Completed
\* or Abandoned, fails with the not-found error (404), and the tables are
\* unchanged, the conversation model is not called and no completion is
\* notified.
C1_InactiveSendRejected ==
    [][\A s \in SessionIds :
         (SendStep(s) /\ ~IsActive(s)) =>
             /\ response'.raised = "ValueError"
             /\ response'.status_code = 404
             /\ UNCHANGED <<dbvars, gemini_calls, notifications>>]_vars

C1_Witness ==
    /\ response.op = "send_message"
    /\ response.status_code = 404
    /\ Exists(response.session_id)
    /\ chat_sessions[response.session_id].status = "completed"

\* C2: a send_message whose reply holds the marker makes exactly one
\* completion notification attempt and, when it commits, returns
\* topic_completed = true and leaves the session Completed with completed_at
\* set; a reply without the marker leaves the session Active with no
\* completed_at, returns topic_completed = false and notifies nothing.
C2_MarkerCompletes ==
    [][\A s \in SessionIds :
         (SendStep(s) /\ IsActive(s) /\ HasReply(response')) =>
             IF Contains(ReplyOf(response'), completion_marker)
             THEN /\ Len(notifications'[s]) = Len(notifications[s]) + 1
                  /\ \A o \in SessionIds \ {s} :
                        notifications'[o] = notifications[o]
                  /\ response'.raised = "" =>
                        /\ Get(response'.body).topic_completed = TRUE
                        /\ chat_sessions'[s].status = "completed"
                        /\ ~IsNone(chat_sessions'[s].completed_at)
             ELSE /\ notifications' = notifications
                  /\ chat_sessions'[s].status = "active"
                  /\ IsNone(chat_sessions'[s].completed_at)
                  /\ response'.raised = "" =>
                        Get(response'.body).topic_completed = FALSE]_vars

C2_Witness ==
    /\ response.op = "send_message"
    /\ response.raised = ""
    /\ Get(response.body).topic_completed
    /\ chat_sessions[response.session_id].status = "completed"
    /\ Len(notifications[response.session_id]) = 1

\* C3: when the completion notification fails, the request still ends as in
\* the success case: unless the commit itself fails, send_message returns
\* normally (200) with topic_completed = true, the session is Completed with
\* completed_at set and the Assistant message is in the transcript.
C3_NotificationFailureIsSoft ==
    [][\A s \in SessionIds :
         (/\ SendStep(s)
          /\ Len(notifications'[s]) = Len(notifications[s]) + 1
          /\ ~notifications'[s][Len(notifications'[s])].delivered
          /\ response'.raised # "DBAPIError") =>
             /\ response'.raised = ""
             /\ response'.status_code = 200
             /\ Get(response'.body).topic_completed = TRUE
             /\ chat_sessions'[s].status = "completed"
             /\ ~IsNone(chat_sessions'[s].completed_at)
             /\ Len(chat_messages'[s]) = Len(chat_messages[s]) + 2
             /\ chat_messages'[s][Len(chat_messages'[s])].role = "assistant"
             /\ chat_messages'[s][Len(chat_messages'[s])].content
                    = ReplyOf(response')]_vars

C3_Witness ==
    /\ response.op = "send_message"
    /\ response.status_code = 200
    /\ chat_sessions[response.session_id].status = "completed"
    /\ Len(notifications[response.session_id]) = 1
    /\ ~notifications[response.session_id][1].delivered

\* C4: in every committed state a session's completed_at is set if and only
\* if its status is Completed.
C4_CompletedAtIffCompleted ==
    \A s \in 1..Len(chat_sessions) :
        ~IsNone(chat_sessions[s].completed_at)
            <=> chat_sessions[s].status = "completed"

C4_Witness ==
    \E s, o \in 1..Len(chat_sessions) :
        /\ chat_sessions[s].status = "completed"
        /\ ~IsNone(chat_sessions[s].completed_at)
        /\ chat_sessions[o].status = "abandoned"

\* the step is a request served by the orchestrator
OrchestratorStep ==
    response'.op \in {"start_session", "send_message", "get_session"}

\* C5: the only change of status a request of the orchestrator (start,
\* send_message, get_details) makes is Active -> Completed; the status of a
\* Completed or Abandoned session is not changed, and no session disappears.
C5_OnlyActiveToCompleted ==
    [][OrchestratorStep =>
         /\ Len(chat_sessions') >= Len(chat_sessions)
         /\ \A s \in 1..Len(chat_sessions) :
               chat_sessions'[s].status # chat_sessions[s].status =>
                   /\ chat_sessions[s].status = "active"
                   /\ chat_sessions'[s].status = "completed"]_vars

C5_Witness ==
    /\ response.op = "send_message"
    /\ Exists(response.session_id)
    /\ chat_sessions[response.session_id].status = "abandoned"
    /\ \E o \in 1..Len(chat_sessions) : chat_sessions[o].status = "completed"

\* C6: after a successful send_message the last message of the session's
\* transcript is the Assistant message whose content is the raw reply of the
\* model, marker included, and the ai_message returned is the completion
\* detector's cleaned text of that reply.
C6_RawStoredCleanReturned ==
    (response.op = "send_message" /\ response.raised = "") =>
        LET rows == chat_messages[response.session_id]
            raw == ReplyOf(response)
        IN  /\ HasReply(response)
            /\ rows # <<>>
            /\ rows[Len(rows)].role = "assistant"
            /\ rows[Len(rows)].content = raw
            /\ Get(response.body).ai_message = extract_completion_info(raw)[2]

C6_Witness ==
    /\ response.op = "send_message"
    /\ response.raised = ""
    /\ LET rows == chat_messages[response.session_id]
       IN  /\ Contains(rows[Len(rows)].content, completion_marker)
           /\ Get(response.body).ai_message = <<"a">>

\* C7: for every text that holds the marker, extract gives (true, T') where
\* T' holds no marker and no run of three or more newlines.
C7_ExtractRemovesMarker ==
    (~IsNone(extracted) /\ Contains(text, completion_marker)) =>
        /\ Get(extracted)[1] = TRUE
        /\ ~Contains(Get(extracted)[2], completion_marker)
        /\ ~HasNewlineRun(Get(extracted)[2])

\* C8: the writes of one send_message are all or nothing: when the request
\* fails after the User message was flushed (the model call or the commit
\* fails), no table changes; when it succeeds, the session's transcript
\* grows by the User message followed by the Assistant message, together
\* with the change of status, and nothing else changes.
C8_SendAllOrNothing ==
    [][\A s \in SessionIds :
         (SendStep(s) /\ IsActive(s)) =>
             IF response'.raised # ""
             THEN UNCHANGED dbvars
             ELSE LET old == chat_messages[s]
                      new == chat_messages'[s]
                  IN  /\ Len(new) = Len(old) + 2
                      /\ SubSeq(new, 1, Len(old)) = old
                      /\ new[Len(old) + 1].role = "user"
                      /\ new[Len(old) + 1].content = response'.message
                      /\ new[Len(old) + 2].role = "assistant"
                      /\ \A o \in 1..Len(chat_sessions) :
                            o # s => /\ chat_messages'[o] = chat_messages[o]
                                     /\ chat_sessions'[o] = chat_sessions[o]
                      /\ Len(chat_sessions') = Len(chat_sessions)
                      /\ session_contexts' = session_contexts]_vars

C8_Witness ==
    /\ response.op = "send_message"
    /\ response.raised = "Exception"
    /\ ~IsNone(response.gemini_call)
    /\ Len(chat_messages[response.session_id]) = 1
    /\ chat_sessions[response.session_id].status = "active"

\* the roles of a session's transcript, in insertion order
Roles(s) == [k \in 1..Len(chat_messages[s]) |-> chat_messages[s][k].role]

\* C9: a start that persisted a session leaves it Active with a transcript
\* of exactly one System message and one Assistant message (the greeting).
C9_StartPersistsPromptAndGreeting ==
    (response.op = "start_session" /\ ~IsNone(response.created)) =>
        LET s == Get(response.created)
        IN  /\ chat_sessions[s].status = "active"
            /\ Roles(s) = <<"system", "assistant">>

\* C10: start on a topic whose details are available returns successfully
\* (201) unless the database fails, and no session is persisted by a start
\* that reported a failure to its caller.
C10_StartSucceedsOrPersistsNothing ==
    response.op = "start_session" =>
        /\ (response.topic_found /\ response.raised # "DBAPIError") =>
               response.status_code = 201
        /\ response.status_code # 201 => IsNone(response.created)

\* C11: in every committed state each session has exactly one System
\* message, it is the row start inserted first, and every list the history
\* query (ORDER BY timestamp) can return for the session has it at
\* position 0.
C11_OneSystemMessageFirst ==
    \A s \in 1..Len(chat_sessions) :
        LET rows == chat_messages[s]
        IN  /\ Cardinality({k \in 1..Len(rows) : rows[k].role = "system"}) = 1
            /\ rows[1].role = "system"
            /\ \A history \in _get_message_history(s, chat_messages) :
                  history[1].role = "system"

C11_Witness ==
    \E s \in 1..Len(chat_sessions) :
        /\ Roles(s) = <<"system", "user", "assistant">>
        /\ chat_messages[s][1].timestamp < chat_messages[s][2].timestamp

\* C12: after every step each session has exactly one SessionContext (the
\* context of session s is the row s, so it is committed by the step that
\* commits the session), and no step changes a field of a context that was
\* committed before it.
C12_OneContextNeverUpdated ==
    [][/\ Len(session_contexts') = Len(chat_sessions')
       /\ \A s \in 1..Len(session_contexts') :
             session_contexts'[s].session_id = s
       /\ \A s \in 1..Len(session_contexts) :
             session_contexts'[s] = session_contexts[s]]_vars

C12_Witness ==
    /\ response.op = "send_message"
    /\ response.raised = ""
    /\ chat_sessions[response.session_id].status = "completed"
    /\ session_contexts[response.session_id].session_id = response.session_id
    /\ Len(session_contexts) = 2

-----------------------------------------------------------------------------
(* Properties of session creation, under SpecStart *)

\* the step is a start request
StartStep == response'.op = "start_session"

\* C13: a start whose topic details are absent fails with the validation
\* error (400) before anything is written: the tables are unchanged, and
\* the user-context lookup is not made.
C13_AbsentTopicRejected ==
    [][(StartStep /\ ~response'.topic_found) =>
          /\ response'.raised = "ValueError"
          /\ response'.status_code = 400
          /\ IsNone(response'.created)
          /\ IsNone(response'.context_lookup)
          /\ UNCHANGED <<dbvars, gemini_calls, notifications>>]_vars

C13_Witness ==
    /\ response.op = "start_session"
    /\ ~response.topic_found
    /\ response.status_code = 400
    /\ Len(chat_sessions) = 1

\* the JSON column holds no entry: it is NULL or the JSON of the empty list
NoEntries(column) == IsNone(column) \/ Get(column) = json_dumps(<<>>)

\* C14: a start whose topic details are available and whose user-context
\* lookup gives nothing succeeds (201) unless the prompt cannot be built or
\* the database fails, and the
\* session it created is Active with a context snapshot that has no
\* user_level and no completed topic or struggle.
C14_AbsentContextStillStarts ==
    (/\ response.op = "start_session"
     /\ response.topic_found
     /\ response.context_lookup = Some(FALSE)
     /\ response.raised \notin {"DBAPIError", "RecursionError"}) =>
        /\ response.status_code = 201
        /\ ~IsNone(response.created)
        /\ LET s == Get(response.created)
           IN  /\ chat_sessions[s].status = "active"
               /\ IsNone(session_contexts[s].user_level)
               /\ NoEntries(session_contexts[s].completed_topics_json)
               /\ NoEntries(session_contexts[s].struggles_json)

-----------------------------------------------------------------------------
(* Properties of the model conversation of a turn, under Spec *)

\* the (role, content) rows of session s in stored order
Stored(s) ==
    [k \in 1..Len(chat_messages[s]) |->
        [role |-> chat_messages[s][k].role,
         content |-> chat_messages[s][k].content]]

\* the turns a stored history is seeded as
RECURSIVE Turns(_)
Turns(history) ==
    IF history = <<>> THEN <<>>
    ELSE <<[role |-> IF Head(history).role = "assistant" THEN "model"
                     ELSE "user",
            parts |-> <<Head(history).content>>]>>
         \o Turns(Tail(history))

\* the seed of a turn on session s with the text user_message: the system
\* prompt and its acknowledgment, then the non-System history truncated to
\* the window, without the User message of the turn
SeedOf(s, user_message) ==
    LET earlier == WithoutSystem(Stored(s))
        current == [role |-> "user", content |-> user_message]
        window == truncate_history(Append(earlier, current),
                                   max_conversation_history)
    IN  <<[role |-> "user", parts |-> <<Stored(s)[1].content>>],
          [role |-> "model", parts |-> <<Acknowledgment>>]>>
        \o Turns(AllButLast(window))

\* C15: every send_message turn on an Active session seeds the model
\* conversation with the system prompt followed by the truncated
\* non-System history without the User message of the turn, in stored
\* order, and then sends the user text to the model once.
C15_SeedIsPromptAndEarlierHistory ==
    [][\A s \in SessionIds :
         (SendStep(s) /\ IsActive(s)) =>
             /\ ~IsNone(response'.gemini_call)
             /\ Get(response'.gemini_call).seed
                    = SeedOf(s, response'.message)
             /\ Get(response'.gemini_call).message = response'.message
             /\ gemini_calls' = gemini_calls + 1]_vars

\* C16: what a turn gives the model is a function of the committed
\* transcript of its session and of the user text only, whatever requests
\* were served before: when the model is called, its seed is SeedOf of the
\* transcript and the text and the turn sent is the text; and whether it is
\* called at all depends only on the transcript (a transcript with earlier
\* turns makes start_chat fail).
C16_SeedFromPersistedStateOnly ==
    [][\A s \in SessionIds :
         (SendStep(s) /\ IsActive(s)) =>
             IF IsNone(response'.gemini_call)
             THEN /\ WithoutSystem(Stored(s)) # <<>>
                  /\ response'.raised = "KeyError"
             ELSE /\ WithoutSystem(Stored(s)) = <<>>
                  /\ Get(response'.gemini_call).seed
                         = SeedOf(s, response'.message)
                  /\ Get(response'.gemini_call).message
                         = response'.message]_vars

\* a turn served after another request got a reply from the model
C16_Witness ==
    /\ response.op = "send_message"
    /\ ~IsNone(response.gemini_call)
    /\ gemini_calls = 2
    /\ \E o \in 1..Len(chat_sessions) :
          /\ o # response.session_id
          /\ Len(chat_messages[o]) = 3
    /\ Len(Get(response.gemini_call).seed) = 2

\* C17: a send_message calls the conversation model at most once, and when
\* that call fails it is not made again: the request ends with the error
\* of the call (500, no body) after exactly one call.
C17_ModelCalledOnceNoRetry ==
    [][\A s \in SessionIds :
         SendStep(s) =>
             /\ gemini_calls' \in {gemini_calls, gemini_calls + 1}
             /\ ~IsNone(response'.gemini_call) =>
                    gemini_calls' = gemini_calls + 1
             /\ (/\ ~IsNone(response'.gemini_call)
                 /\ IsNone(Get(response'.gemini_call).reply)) =>
                    /\ response'.raised = "Exception"
                    /\ response'.status_code = 500
                    /\ IsNone(response'.body)]_vars

C17_Witness ==
    /\ response.op = "send_message"
    /\ ~IsNone(response.gemini_call)
    /\ IsNone(Get(response.gemini_call).reply)
    /\ response.status_code = 500
    /\ gemini_calls = 1

-----------------------------------------------------------------------------
(* Properties of the retry policy *)

Running == retry.state = "running"

NotRetried == {"ValueError"}

\* C19: when a call of the wrapped function raises an error that is not of
\* the retryable classes, the wrapper raises that error at once: no delay is
\* slept for it, and the function is not called again.
C19_NonRetryablePropagates ==
    [][/\ (/\ retry'.calls = retry.calls + 1
           /\ retry'.seen[retry'.calls] \in NotRetried) =>
              /\ retry'.state = "raised"
              /\ Get(retry'.error) = [class |-> retry'.seen[retry'.calls],
                                      attempt |-> retry'.calls]
              /\ retry'.slept = retry.slept
       /\ retry.state = "raised" => retry'.calls = retry.calls]_vars

C19_Witness ==
    /\ retry.func = "operation"
    /\ retry.state = "raised"
    /\ retry.seen = <<"TimeoutException", "ValueError">>
    /\ retry.calls = 2
    /\ Len(retry.slept) = 1
    /\ retry.max_attempts = 3

\* C20: when the first request of an operation of DotNetClient fails with a
\* network or timeout error, the request has been issued again by the time
\* the operation ends.
C20_TransientFailureRetried ==
    (/\ retry.func \in DotNetOperations
     /\ ~Running
     /\ retry.requests[1] \in TransientFailures) =>
        Len(retry.requests) > 1

\* C21: an operation of DotNetClient never raises to its caller: whatever
\* its request meets (an HTTP status error, a network or timeout failure, a
\* decode failure), it returns, and what it returns on a failure is None
\* (False for notify_topic_completion).
C21_ProgressClientNeverRaises ==
    retry.func \in DotNetOperations =>
        /\ retry.state # "raised"
        /\ IsNone(retry.error)
        /\ retry.state = "returned" =>
              LET failed == retry.requests[Len(retry.requests)] # "ok"
                  result == Get(retry.value).result
              IN  IF retry.func = "notify_topic_completion"
                  THEN result = (IF failed THEN "False" ELSE "True")
                  ELSE result = (IF failed THEN "None" ELSE "value")

C21_Witness ==
    /\ retry.func = "notify_topic_completion"
    /\ retry.state = "returned"
    /\ retry.requests = <<"HTTPStatusError">>
    /\ Get(retry.value).result = "False"

-----------------------------------------------------------------------------
(* Properties of single functions *)

\* the last k elements of list
LastN(list, k) == SubSeq(list, Len(list) - k + 1, Len(list))

Min(a, b) == IF a < b THEN a ELSE b

\* C22: truncate_history(msgs, n) returns the last min(n, len(msgs))
\* elements of msgs in their order (so msgs itself when len(msgs) <= n, and
\* the empty list when n = 0).
C22_TruncateKeepsLastN ==
    ~IsNone(returned) =>
        Get(returned) = LastN(args.messages,
                              Min(args.max_messages, Len(args.messages)))

\* the marker occurs in s: somewhere in s the chunk "{TOPIC_" is followed at
\* once by the chunk "COMPLETED}"
HasMarker(s) ==
    \E i \in 1..(Len(s) - 1) : s[i] = "{TOPIC_" /\ s[i + 1] = "COMPLETED}"

\* C23: for every text without the marker, the empty text included,
\* extract gives (false, T) with T as it was: nothing is collapsed or
\* trimmed.
C23_ExtractIdentityWithoutMarker ==
    (~IsNone(extracted) /\ ~HasMarker(text)) =>
        Get(extracted) = <<FALSE, text>>

C23_Witness ==
    /\ ~IsNone(extracted)
    /\ text = <<SP, NL, NL, NL, SP>>
    /\ Get(extracted) = <<FALSE, text>>

\* C24: strip_marker is idempotent: applied to the text it gave, it gives
\* that text again.
C24_StripMarkerIdempotent ==
    ~IsNone(extracted) =>
        remove_completion_marker(Get(extracted)[2]) = Get(extracted)[2]

\* C29: is_completed(text) is true if and only if the marker occurs in the
\* text, and false for the empty text.
C29_CompletedIffMarker ==
    ~IsNone(extracted) =>
        /\ Get(extracted)[1] = HasMarker(text)
        /\ text = <<>> => Get(extracted)[1] = FALSE

C29_Witness ==
    /\ ~IsNone(extracted)
    /\ text = <<"a", "{TOPIC_", "COMPLETED}", "a">>
    /\ Get(extracted)[1] = TRUE

\* C25: validate_by_score(c, t, required) is false whenever t < 3, whatever
\* c is, and otherwise it is exactly c >= required, where required is 2 when
\* it is not given.
C25_ValidateByScore ==
    ~IsNone(returned) =>
        LET c == args.correct_answers
            t == args.total_questions
            required == IF args.required_correct = <<>> THEN 2
                        ELSE args.required_correct[1]
        IN  Get(returned) = (IF t < 3 THEN FALSE ELSE c >= required)

C25_Witness ==
    /\ ~IsNone(returned)
    /\ args = [correct_answers |-> 4, total_questions |-> 2,
               required_correct |-> <<>>]
    /\ Get(returned) = FALSE

\* the template of the topic names a variable that _apply_template does not
\* pass
HasUnknownVariable(topic) ==
    /\ ~IsNone(topic.prompt_template)
    /\ \E i \in 1..Len(Get(topic.prompt_template)) :
          /\ IsField(Get(topic.prompt_template)[i])
          /\ Get(topic.prompt_template)[i] \notin TemplateVariables

\* C26: on a topic whose template names an unknown variable,
\* build_system_prompt ends and gives the default prompt: the start that
\* called it gets no error from it, and the System message of the session
\* it created is the default prompt.
C26_UnknownVariableFallsBack ==
    (/\ response.op = "start_session"
     /\ response.topic_found
     /\ HasUnknownVariable(TopicDetailsDTO(response.request.topic_id))) =>
        /\ response.raised \notin {"RecursionError", "KeyError"}
        /\ ~IsNone(response.created) =>
              chat_messages[Get(response.created)][1].content
                 = DefaultPrompt(TopicDetailsDTO(response.request.topic_id),
                                 IF Get(response.context_lookup)
                                 THEN Some(UserContextDTO(response.request.user_id))
                                 ELSE None)

\* C27: get_details answers not found (404) for a session id that no
\* session has, and for an existing session it returns successfully (200)
\* the details of the session.
C27_GetDetailsReturns ==
    response.op = "get_session" =>
        IF Exists(response.session_id)
        THEN response.raised = "" /\ response.status_code = 200
        ELSE response.status_code = 404

\* C28: the transcript of a session is append-only: after every step the
\* committed rows of each session start with the rows committed before the
\* step, with their role, content and timestamp; and a successful
\* send_message appends exactly one User row followed by one Assistant row.
C28_TranscriptAppendOnly ==
    [][/\ Len(chat_messages') >= Len(chat_messages)
       /\ \A s \in 1..Len(chat_messages) :
             /\ Len(chat_messages'[s]) >= Len(chat_messages[s])
             /\ SubSeq(chat_messages'[s], 1, Len(chat_messages[s]))
                    = chat_messages[s]
             /\ (SendStep(s) /\ response'.raised = "") =>
                    /\ Len(chat_messages'[s]) = Len(chat_messages[s]) + 2
                    /\ LastN(Roles(s)', 2) = <<"user", "assistant">>
             /\ ~(SendStep(s) /\ response'.raised = "") =>
                    chat_messages'[s] = chat_messages[s]]_vars

C28_Witness ==
    /\ response.op = "send_message"
    /\ response.raised = ""
    /\ ~Get(response.body).topic_completed
    /\ Roles(response.session_id) = <<"system", "user", "assistant">>
    /\ Len(chat_sessions) = 2

\* C30: start_chat with a non-empty system prompt seeds the conversation
\* with one user turn that carries the prompt, one model turn that carries
\* the acknowledgment, and then the turns of the history it was given, in
\* their order; with an empty prompt the seed is the history alone.
C30_StartChatSeed ==
    ~IsNone(returned) =>
        /\ Get(returned).raised = ""
        /\ Get(returned).value =
              (IF args.system_prompt # <<>>
               THEN <<[role |-> "user", parts |-> <<args.system_prompt>>],
                      [role |-> "model", parts |-> <<Acknowledgment>>]>>
               ELSE <<>>)
              \o args.history

\* the positions of the messages of list that are not System messages
NonSystem(list) == {i \in 1..Len(list) : list[i].role # "system"}

\* the position in list of its k-th message that is not a System message
KthNonSystem(list, k) ==
    CHOOSE i \in NonSystem(list) :
        Cardinality({j \in NonSystem(list) : j <= i}) = k

\* C31: build_history_from_messages drops every System message, makes a
\* user turn of each User message and a model turn of each Assistant
\* message, each with the content of its message, and keeps their order:
\* the output is as long as the input has messages that are not System.
C31_BuildHistoryMapsRoles ==
    ~IsNone(returned) =>
        LET out == Get(returned)
        IN  /\ Len(out) = Cardinality(NonSystem(args.messages))
            /\ \A k \in 1..Len(out) :
                   LET m == args.messages[KthNonSystem(args.messages, k)]
                   IN  /\ out[k].role =
                             (IF m.role = "user" THEN "user" ELSE "model")
                       /\ out[k].parts = <<m.content>>

\* a System message between a User and an Assistant message was mapped
C31_Witness ==
    /\ ~IsNone(returned)
    /\ Len(args.messages) = 3
    /\ [k \in 1..3 |-> args.messages[k].role] = <<"user", "system", "assistant">>
    /\ Len(Get(returned)) = 2

LevelOf(user_context) ==
    IF IsNone(user_context) \/ IsNone(Get(user_context).user_level)
    THEN None
    ELSE Some(lower(Get(Get(user_context).user_level)))

\* C33: the difficulty of the prompts is a fixed lookup of the user level
\* without regard to case: beginner and novice give "beginner", intermediate
\* gives "intermediate", advanced and expert give "advanced", and every
\* other level, a missing level and a missing user context give
\* "beginner to intermediate".
C33_DifficultyLookup ==
    ~IsNone(returned) =>
        LET level == LevelOf(args.user_context)
        IN  Get(returned) =
                IF level \in {Some("beginner"), Some("novice")} THEN "beginner"
                ELSE IF level = Some("intermediate") THEN "intermediate"
                ELSE IF level \in {Some("advanced"), Some("expert")} THEN "advanced"
                ELSE "beginner to intermediate"

\* C39: the retry wrapper calls the wrapped operation at least once under
\* every policy, max_attempts <= 0 included: when the wrapper is over it
\* has returned a value of the operation or raised, after a call.
C39_WrapperCallsAtLeastOnce ==
    ~Running =>
        /\ retry.calls >= 1
        /\ retry.state = "returned" =>
               Get(retry.value).result =
                   call_func(retry.func, retry.requests[retry.calls]).value

\* a completion notification for session s was delivered to the Progress API
Notified(s) ==
    \E k \in 1..Len(notifications[s]) : notifications[s][k].delivered

\* C37: when a completion notification was delivered for a session and the
\* send_message that posted it is over, the session is Completed in the
\* committed state, whether or not the final commit failed.
C37_NotifiedIsCompleted ==
    \A s \in SessionIds :
        Notified(s) => /\ Exists(s)
                       /\ chat_sessions[s].status = "completed"
                       /\ ~IsNone(chat_sessions[s].completed_at)

\* the turns of seed alternate between user and model, from a user turn
Alternates(seed) ==
    \A k \in 1..Len(seed) :
        seed[k].role = (IF k % 2 = 1 THEN "user" ELSE "model")

\* C38: in a conversation of one request after the other, every
\* send_message turn on an Active session seeds the model with turns that
\* alternate between user and model (the prompt as user, the
\* acknowledgment as model, then the retained history), the last of them a
\* model turn, before the new user turn is sent.
C38_SeedAlternates ==
    [][\A s \in SessionIds :
         (SendStep(s) /\ IsActive(s)) =>
             /\ ~IsNone(response'.gemini_call)
             /\ LET seed == Get(response'.gemini_call).seed
                IN  /\ Alternates(seed)
                    /\ seed # <<>>
                    /\ seed[Len(seed)].role = "model"]_vars

-----------------------------------------------------------------------------
(* Properties of overlapping requests, under SpecConcurrent *)

\* the step taken is caller c's read of the history of session s
HistoryStep(c, s) ==
    /\ response'.op = "send_message"
    /\ "read" \in DOMAIN response'
    /\ response'.caller = c
    /\ response'.session_id = s

\* C34: however two send_message requests on one Active session overlap,
\* the history a request seeds the model with is everything that is
\* committed to the session when it reads, in order, without the System
\* message: only its own new User message is left out, no committed message
\* of the other turn is dropped, and its own text is not in the seed.
C34_SeedExcludesOnlyOwnMessage ==
    [][\A c \in Callers, s \in SessionIds :
         HistoryStep(c, s) =>
             response'.history \in
                 {Turns(WithoutSystem(committed)) :
                     committed \in _get_message_history(s, chat_messages)}]_vars

\* C35: however send_message requests on one session overlap, at most one
\* completion notification is ever sent for the session, and a committed
\* completed_at is never changed.
C35_OneNotificationOneCompletedAt ==
    [][\A s \in SessionIds :
         /\ Len(notifications'[s]) <= 1
         /\ (Exists(s) /\ ~IsNone(chat_sessions[s].completed_at)) =>
                chat_sessions'[s].completed_at = chat_sessions[s].completed_at]_vars

\* the message of session s with the latest timestamp
LastMessage(s) ==
    CHOOSE m \in {chat_messages[s][k] : k \in 1..Len(chat_messages[s])} :
        \A k \in 1..Len(chat_messages[s]) :
            chat_messages[s][k].timestamp <= m.timestamp

\* C36: however send_message requests overlap, no message is committed to
\* a session whose Completed status is committed: the last message of a
\* Completed session is the Assistant reply that carried the marker.
C36_NoMessageAfterCompleted ==
    [][\A s \in SessionIds :
         (Exists(s) /\ chat_sessions[s].status = "completed") =>
             /\ chat_messages'[s] = chat_messages[s]
             /\ LastMessage(s).role = "assistant"
             /\ HasMarker(LastMessage(s).content)]_vars

====
